---------------------------- MODULE Spec2Model ----------------------------
(***************************************************************************)
(* A model of src/src/reaction_profile_generator/generator.py: the         *)
(* force-constant scan of find_ts_guess with the validation loop of        *)
(* get_final_ts_guess_geometry, and the pure helpers get_ts_guess_index,   *)
(* get_active_bonds/get_bonds, determine_potential and                     *)
(* count_unique_conformers; the distance constraints of lines 38-83 with   *)
(* get_optimal_distances; and the retry loop and cis/trans step of         *)
(* optimize_molecule_with_extra_constraints.                               *)
(*                                                                         *)
(* Numbers.  Distances are integers in tenths of an Angstrom, force        *)
(* constants integers in hundredths, and angstrom_to_bohr multiplies by    *)
(* 189 (1.88973 to three digits, in hundredths; TLC's integers are 32 bit  *)
(* wide, and 188973 squared does not fit).  A potential is therefore an    *)
(* integer in units of 1e-8, and the source's 0.01 is 1000000.  RMSD       *)
(* values are integers in hundredths of an Angstrom (0.5 is 50).  The      *)
(* arithmetic is exact: rounding of floating point is not modelled.        *)
(***************************************************************************)
EXTENDS Integers, Sequences, FiniteSets, TLC

VARIABLES
    \* ---- find_ts_guess / get_final_ts_guess_geometry ----
    pc,                          \* position in find_ts_guess
    conformers_to_do,            \* the list the ensemble reducer returned
    formation_constraints,       \* (atom index pair) -> target distance
    fc_min, fc_max, fc_delta,    \* the scan range
    conf_pos,                    \* conformers of conformers_to_do entered so far
    conformer,                   \* loop variable of the outer for
    fc_pos,                      \* force constants tried for this conformer
    force_constant,              \* loop variable of the inner for
    energies, coords, potentials,\* the last biased run's profile
    preliminary_ts_guess_index,
    index,                       \* loop variable of get_final_ts_guess_geometry
    opt_calls,                   \* history: biased optimizer invocations
    freq_calls,                  \* history: frequency engine invocations
    files,                       \* the working directory: name -> content
    file_writes,                 \* history: which unit wrote which name
    result,                      \* what find_ts_guess returned or raised
    \* ---- get_ts_guess_index ----
    ix_energies, ix_potentials,  \* its arguments
    ts_guess_index,              \* its return value
    \* ---- count_unique_conformers ----
    best_rms,                    \* AllChem.GetBestRMS of each pair i < j
    rmsd_matrix,
    clusters,
    cl_i,                        \* loop variable of line 622
    \* ---- get_active_bonds ----
    reactant_mol, product_mol,
    formed_bonds, broken_bonds,
    bonds_pc,
    \* ---- determine_potential ----
    pot_coords, pot_constraints, pot_fc,   \* its arguments
    pot_profile,                           \* its return value
    pot_pc,
    \* ---- find_ts_guess, lines 38-83: the distance constraints ----
    cons_pc,
    xtb_length,                  \* the engine: bond order -> optimised length
    r_components, p_components,  \* len(smiles.split('.')) of either SMILES
    full_reactant_dict,          \* map number -> atom index
    breaking_constraints,
    reactant_constraints,        \* constraints of line 55: the reactant's embedding
    product_constraints,         \* handed to the product's embedding
    \* ---- optimize_molecule_with_extra_constraints ----
    st_pc,
    stereochemistry_smiles,      \* chiral centers of the input SMILES
    double_bonds,                \* the double bonds of the molecule
    n_attempt,                   \* loop variable n of line 304
    dihedrals,                   \* embedded_mol: dihedral about each double bond
    init_xyz                     \* conformer_<name>_init.xyz: the same, on disk

scan_vars == << pc, conformers_to_do, formation_constraints, fc_min, fc_max,
                fc_delta, conf_pos, conformer, fc_pos, force_constant,
                energies, coords, potentials, preliminary_ts_guess_index,
                index, opt_calls, freq_calls, files, file_writes, result >>

index_vars   == << ix_energies, ix_potentials, ts_guess_index >>
cluster_vars == << best_rms, rmsd_matrix, clusters, cl_i >>
bond_vars    == << reactant_mol, product_mol, formed_bonds, broken_bonds, bonds_pc >>
pot_vars     == << pot_coords, pot_constraints, pot_fc, pot_profile, pot_pc >>
cons_vars    == << cons_pc, xtb_length, r_components, p_components,
                   full_reactant_dict, breaking_constraints,
                   reactant_constraints, product_constraints >>
stereo_vars  == << st_pc, stereochemistry_smiles, double_bonds, n_attempt,
                   dihedrals, init_xyz >>

vars == << scan_vars, index_vars, cluster_vars, bond_vars, pot_vars,
          cons_vars, stereo_vars >>

not_scan_vars == << index_vars, cluster_vars, bond_vars, pot_vars,
                    cons_vars, stereo_vars >>
not_index_vars == << scan_vars, cluster_vars, bond_vars, pot_vars,
                    cons_vars, stereo_vars >>
not_cluster_vars == << scan_vars, index_vars, bond_vars, pot_vars,
                    cons_vars, stereo_vars >>
not_bond_vars == << scan_vars, index_vars, cluster_vars, pot_vars,
                    cons_vars, stereo_vars >>
not_pot_vars == << scan_vars, index_vars, cluster_vars, bond_vars,
                    cons_vars, stereo_vars >>
not_stereo_vars == << scan_vars, index_vars, cluster_vars, bond_vars, pot_vars,
                      cons_vars >>

---------------------------------------------------------------------------
(* Bounds of the model and constants of the program *)

MaxConf  == 2      \* at most this many representative conformers
MaxFc    == 3      \* fc_max ranges over 1..MaxFc+1
MaxSteps == 2      \* a biased run logs 1..MaxSteps optimizer steps

None == -1                       \* Python's None where an int is expected
BohrPerAngstrom == 189           \* 1.88973, in hundredths
PotentialThreshold == 1000000    \* 0.01, in units of 1e-8
ValidationWindow == 6            \* preliminary_ts_guess_index + 6

FcMins     == {1, 2}
FcDeltas   == {1, 2}
ScanDists  == {15, 20}           \* 1.5 and 2.0 Angstrom
EnergyVals == {0, 2000000}
NegCounts  == {0, 1, 2}          \* negative frequencies the engine reports
ScanKey    == << 0, 1 >>

Min2(a, b) == IF a < b THEN a ELSE b

---------------------------------------------------------------------------
(* determine_potential, angstrom_to_bohr *)

angstrom_to_bohr(distance_angstrom) == distance_angstrom * BohrPerAngstrom

RECURSIVE PotentialSumLinear(_, _, _, _)
\* a sum whose terms are not squared
PotentialSumLinear(keys, dist, constraints, fc) ==
    IF keys = {} THEN 0
    ELSE LET key == CHOOSE k \in keys : TRUE
             actual_distance == dist[key] - constraints[key]
         IN  fc * angstrom_to_bohr(actual_distance)
             + PotentialSumLinear(keys \ {key}, dist, constraints, fc)

RECURSIVE PotentialSum(_, _, _, _)
\* the inner loop of determine_potential over constraints.items(); dist is
\* the step's distance matrix restricted to the pairs that are looked up
PotentialSum(keys, dist, constraints, fc) ==
    IF keys = {} THEN 0
    ELSE LET key == CHOOSE k \in keys : TRUE
             actual_distance == dist[key] - constraints[key]
         IN  fc * (angstrom_to_bohr(actual_distance) * angstrom_to_bohr(actual_distance))
             + PotentialSum(keys \ {key}, dist, constraints, fc)

determine_potential(all_coords, constraints, fc) ==
    [k \in 1..Len(all_coords) |->
        PotentialSum(DOMAIN constraints, all_coords[k].dist, constraints, fc)]

---------------------------------------------------------------------------
(* get_ts_guess_index *)

RECURSIVE ListMax(_)
ListMax(list) ==
    IF Len(list) = 1 THEN list[1]
    ELSE LET m == ListMax(Tail(list)) IN IF list[1] >= m THEN list[1] ELSE m

RECURSIVE ListIndex(_, _)
\* list.index(v): 0-based position of the first element equal to v
ListIndex(list, v) ==
    IF list[1] = v THEN 0 ELSE 1 + ListIndex(Tail(list), v)

\* an index taken from the raw energies
get_ts_guess_index_raw(es, ps) == ListIndex(es, ListMax(es))

\* lines 215-216
get_ts_guess_index(es, ps) ==
    LET true_energy == [i \in 1..Len(es) |-> es[i] - ps[i]]
    IN  ListIndex(true_energy, ListMax(true_energy))

---------------------------------------------------------------------------
(* The working directory *)

FileName(base, c, fc) == [base |-> base, conformer |-> c, fc |-> fc]
Unit(c, fc) == [conformer |-> c, fc |-> fc]
Content(u, step) == [unit |-> u, step |-> step]

RECURSIVE WriteAll(_, _, _)
\* fs after writing, in order, the <<name, content>> pairs of ws
WriteAll(fs, ws, u) ==
    IF ws = << >> THEN fs
    ELSE WriteAll((ws[1][1] :> Content(u, ws[1][2])) @@ fs, Tail(ws), u)

Logged(ws, u) == { [name |-> ws[i][1], unit |-> u] : i \in 1..Len(ws) }

\* xtb_optimize_with_applied_potentials and get_profile_for_biased_optimization
\* for conformer file c: the .inp, the engine's stdout, the engine's
\* xtbopt.log renamed to <c>_path.log, and the last geometry
BiasedRunWrites(c, last_step) ==
    << << FileName("conformer_optimized.inp", c, None), None >>,
       << FileName("conformer_optimized_path.out", c, None), None >>,
       << FileName("xtbopt.log", None, None), None >>,
       << FileName("conformer_optimized_path.log", c, None), None >>,
       << FileName("product_geometry_obtained.xyz", None, None), last_step >> >>

\* os.rename('xtbopt.log', ...): the source name is gone afterwards
Renamed(fs, name) == [n \in (DOMAIN fs) \ {name} |-> fs[n]]

\* write_xyz_file_from_atoms_and_coords(.., f'ts_guess_{force_constant}.xyz')
TsGuessFile(fc) == FileName("ts_guess.xyz", None, fc)

\* one pass of the candidate block: the geometry file, then
\* get_negative_frequencies (hess.out, and the engine's g98.out)
CandidateWrites(fc, step) ==
    << << TsGuessFile(fc), step >>,
       << FileName("hess.out", None, None), None >>,
       << FileName("g98.out", None, None), None >> >>

---------------------------------------------------------------------------
(* find_ts_guess *)

\* np.arange(fc_min, fc_max, fc_delta) for a positive step
ArangeLen(lo, hi, step) == IF hi <= lo THEN 0 ELSE ((hi - lo) + step - 1) \div step
Arange(lo, hi, step) == [k \in 1..ArangeLen(lo, hi, step) |-> lo + (k - 1) * step]

ForceConstants == Arange(fc_min, fc_max, fc_delta)

\* a run that tests the first logged step instead of the last
ReachedProductFirstStep(ps) == ~(ps[1] > PotentialThreshold)

\* line 109: "if potentials[-1] > 0.01: continue", else the run is accepted
ReachedProduct(ps) == ~(ps[Len(ps)] > PotentialThreshold)

\* what one biased run can log: 1..MaxSteps steps, each an energy and a
\* geometry (its step number and the distance of the constrained pair)
Trajectories ==
    UNION { [1..n -> [energy : EnergyVals, d : ScanDists]] : n \in 1..MaxSteps }

ConformerLists == { [k \in 1..n |-> k - 1] : n \in 0..MaxConf }

ConstraintMaps == { ScanKey :> 15 }

ScanInit ==
    /\ pc = "for_conformer"
    /\ conformers_to_do \in ConformerLists
    /\ formation_constraints \in ConstraintMaps
    /\ fc_min \in FcMins
    /\ fc_max \in 1..(MaxFc + 1)
    /\ fc_delta \in FcDeltas
    /\ conf_pos = 0
    /\ conformer = None
    /\ fc_pos = 0
    /\ force_constant = None
    /\ energies = << >>
    /\ coords = << >>
    /\ potentials = << >>
    /\ preliminary_ts_guess_index = None
    /\ index = None
    /\ opt_calls = << >>
    /\ freq_calls = << >>
    /\ files = << >>
    /\ file_writes = {}
    /\ result = [kind |-> "running", fc |-> None]

\* line 96: the next conformer of the list, or the end of the function
ForConformer ==
    /\ UNCHANGED not_scan_vars
    /\ pc = "for_conformer"
    /\ IF conf_pos < Len(conformers_to_do)
       THEN /\ conformer' = conformers_to_do[conf_pos + 1]
            /\ conf_pos' = conf_pos + 1
            /\ preliminary_ts_guess_index' = None
            /\ fc_pos' = 0
            /\ pc' = "for_force_constant"
            /\ UNCHANGED result
       ELSE /\ pc' = "done"
            /\ result' = [kind |-> "None", fc |-> None]
            /\ UNCHANGED << conformer, conf_pos, preliminary_ts_guess_index, fc_pos >>
    /\ UNCHANGED << conformers_to_do, formation_constraints, fc_min, fc_max,
                    fc_delta, force_constant, energies, coords, potentials,
                    index, opt_calls, freq_calls, files, file_writes >>

\* lines 100-113: one biased run and the test of its final-step potential
BiasedRun ==
    /\ UNCHANGED not_scan_vars
    /\ pc = "for_force_constant"
    /\ fc_pos < Len(ForceConstants)
    /\ \E traj \in Trajectories :
        LET fc == ForceConstants[fc_pos + 1]
            cs == [k \in 1..Len(traj) |-> [step |-> k - 1, dist |-> ScanKey :> traj[k].d]]
            ps == determine_potential(cs, formation_constraints, fc)
            u  == Unit(conformer, fc)
            ws == BiasedRunWrites(conformer, Len(traj) - 1)
            reached == ReachedProduct(ps)
        IN  /\ force_constant' = fc
            /\ fc_pos' = fc_pos + 1
            /\ energies' = [k \in 1..Len(traj) |-> traj[k].energy]
            /\ coords' = cs
            /\ potentials' = ps
            /\ opt_calls' = Append(opt_calls,
                    [conformer |-> conformer, fc |-> fc, final |-> ps[Len(ps)]])
            /\ files' = Renamed(WriteAll(files, ws, u), FileName("xtbopt.log", None, None))
            /\ file_writes' = file_writes \cup Logged(ws, u)
            /\ IF reached
               THEN /\ preliminary_ts_guess_index' = get_ts_guess_index(energies', ps)
                    /\ index' = preliminary_ts_guess_index'
                    /\ pc' = "validate"
               ELSE /\ pc' = "for_force_constant"
                    /\ UNCHANGED << preliminary_ts_guess_index, index >>
    /\ UNCHANGED << conformers_to_do, formation_constraints, fc_min, fc_max,
                    fc_delta, conf_pos, conformer, freq_calls, result >>

\* lines 127-130: the scan ended without a break; potentials is a local that
\* only a biased run binds
NoGuessFound ==
    /\ UNCHANGED not_scan_vars
    /\ pc = "for_force_constant"
    /\ fc_pos = Len(ForceConstants)
    /\ pc' = "done"
    /\ result' = IF opt_calls = << >>
                 THEN [kind |-> "UnboundLocalError", fc |-> None]
                 ELSE [kind |-> "None", fc |-> None]
    /\ UNCHANGED << conformers_to_do, formation_constraints, fc_min, fc_max,
                    fc_delta, conf_pos, conformer, fc_pos, force_constant,
                    energies, coords, potentials, preliminary_ts_guess_index,
                    index, opt_calls, freq_calls, files, file_writes >>

WindowEnd == Min2(preliminary_ts_guess_index + ValidationWindow, Len(coords))

\* a test that lets any candidate with a negative frequency through
AnyNegative(n) == n >= 1

\* lines 157 and 169: "if len(neg_freq) == 1: return filename"
ExactlyOneNegative(n) == n = 1

\* a fallback that leaves the last candidate's file in place
NoFallbackWrites(fc, p) == << >>

\* lines 175-179: the file is written again from the selected index
FallbackWrites(fc, p) == << << TsGuessFile(fc), p >> >>

\* lines 149-171: one candidate of get_final_ts_guess_geometry.  The engine
\* is deterministic: both frequency runs of a candidate see the same file
\* and report the same n negative frequencies.  neg_freq_init is only
\* printed and is left out.
Candidate ==
    /\ UNCHANGED not_scan_vars
    /\ pc = "validate"
    /\ index < WindowEnd
    /\ \E n \in NegCounts :
        LET u    == Unit(conformer, force_constant)
            ws   == CandidateWrites(force_constant, index)
            call == [index |-> index, unit |-> u, neg |-> n]
        IN  /\ file_writes' = file_writes \cup Logged(ws, u)
            /\ IF ExactlyOneNegative(n)
               THEN /\ files' = WriteAll(files, ws, u)
                    /\ freq_calls' = Append(freq_calls, call)
                    /\ pc' = "done"
                    /\ result' = [kind |-> "file", fc |-> force_constant]
                    /\ UNCHANGED index
               ELSE /\ files' = WriteAll(WriteAll(files, ws, u), ws, u)
                    /\ freq_calls' = Append(Append(freq_calls, call), call)
                    /\ index' = index + 1
                    /\ UNCHANGED << pc, result >>
    /\ UNCHANGED << conformers_to_do, formation_constraints, fc_min, fc_max,
                    fc_delta, conf_pos, conformer, fc_pos, force_constant,
                    energies, coords, potentials, preliminary_ts_guess_index,
                    opt_calls >>

\* lines 173-181 and 132: no candidate qualified
Fallback ==
    /\ UNCHANGED not_scan_vars
    /\ pc = "validate"
    /\ index >= WindowEnd
    /\ LET u  == Unit(conformer, force_constant)
           ws == FallbackWrites(force_constant, preliminary_ts_guess_index)
       IN  /\ files' = WriteAll(files, ws, u)
           /\ file_writes' = file_writes \cup Logged(ws, u)
    /\ pc' = "done"
    /\ result' = [kind |-> "file", fc |-> force_constant]
    /\ UNCHANGED << conformers_to_do, formation_constraints, fc_min, fc_max,
                    fc_delta, conf_pos, conformer, fc_pos, force_constant,
                    energies, coords, potentials, preliminary_ts_guess_index,
                    index, opt_calls, freq_calls >>

ScanNext == ForConformer \/ BiasedRun \/ NoGuessFound \/ Candidate \/ Fallback

\* the state of find_ts_guess when another function is the one examined
ScanIdle ==
    /\ pc = "idle"
    /\ conformers_to_do = << >>
    /\ formation_constraints = << >>
    /\ fc_min = None /\ fc_max = None /\ fc_delta = None
    /\ conf_pos = 0 /\ conformer = None
    /\ fc_pos = 0 /\ force_constant = None
    /\ energies = << >> /\ coords = << >> /\ potentials = << >>
    /\ preliminary_ts_guess_index = None /\ index = None
    /\ opt_calls = << >> /\ freq_calls = << >>
    /\ files = << >> /\ file_writes = {}
    /\ result = [kind |-> "running", fc |-> None]

---------------------------------------------------------------------------
(* get_final_ts_guess_geometry on a long trajectory *)

MaxTraj == 7       \* the accepted run logged 1..MaxTraj steps

\* an energy profile whose single maximum is step number peak
PeakedEnergies(len, peak) ==
    [k \in 1..len |-> IF k = peak THEN 2000000 ELSE 0]

\* a logged path that keeps the constrained pair at its target distance
OnTargetPath(len) ==
    [k \in 1..len |-> [step |-> k - 1, dist |-> ScanKey :> 15]]

\* the state in which line 118 calls get_final_ts_guess_geometry: conformer
\* 0, the first force constant tried reached the product, lines 108-116
\* have bound the profile and the preliminary index
FinalInit ==
    /\ pc = "validate"
    /\ conformers_to_do = << 0 >>
    /\ formation_constraints \in ConstraintMaps
    /\ fc_min = 1 /\ fc_max = 2 /\ fc_delta = 1
    /\ conf_pos = 1 /\ conformer = 0
    /\ fc_pos = 1 /\ force_constant = 1
    /\ \E len \in 1..MaxTraj : \E peak \in 1..len :
        /\ energies = PeakedEnergies(len, peak)
        /\ coords = OnTargetPath(len)
    /\ potentials = determine_potential(coords, formation_constraints, force_constant)
    /\ preliminary_ts_guess_index = get_ts_guess_index(energies, potentials)
    /\ index = preliminary_ts_guess_index
    /\ opt_calls = << [conformer |-> conformer, fc |-> force_constant,
                       final |-> potentials[Len(potentials)]] >>
    /\ freq_calls = << >>
    /\ LET u  == Unit(conformer, force_constant)
           ws == BiasedRunWrites(conformer, Len(coords) - 1)
       IN  /\ files = Renamed(WriteAll(<< >>, ws, u), FileName("xtbopt.log", None, None))
           /\ file_writes = Logged(ws, u)
    /\ result = [kind |-> "running", fc |-> None]

---------------------------------------------------------------------------
(* get_ts_guess_index on its own *)

MaxLen == 4        \* a profile of 1..MaxLen steps

IxEnergies   == {-1, 0, 1}
IxPotentials == {0, 1}

IndexIdle ==
    /\ ix_energies = << >>
    /\ ix_potentials = << >>
    /\ ts_guess_index = None

IndexInit ==
    /\ \E n \in 1..MaxLen :
        /\ ix_energies \in [1..n -> IxEnergies]
        /\ ix_potentials \in [1..n -> IxPotentials]
    /\ ts_guess_index = None

SelectIndex ==
    /\ ts_guess_index = None
    /\ ix_energies # << >>
    /\ ts_guess_index' = get_ts_guess_index(ix_energies, ix_potentials)
    /\ UNCHANGED << ix_energies, ix_potentials >>
    /\ UNCHANGED not_index_vars

---------------------------------------------------------------------------
(* count_unique_conformers *)

MaxMol == 4              \* at most this many conformer files
RmsdThreshold == 50      \* 0.5

RmsdVals == {30, 50, 70}

Combinations2(n) == { p \in (0..(n - 1)) \X (0..(n - 1)) : p[1] < p[2] }

\* lines 615-619: zeros, then both halves set from the one value per pair
BuildRmsdMatrix(n, rms) ==
    [i \in 0..(n - 1) |-> [j \in 0..(n - 1) |->
        IF i < j THEN rms[<< i, j >>]
        ELSE IF j < i THEN rms[<< j, i >>]
        ELSE 0]]

\* a test against the cluster's first member only
FitsFirstMember(m, i, cluster) == m[i][cluster[1]] < RmsdThreshold

\* line 625: all(rmsd_matrix[i, j] < 0.5 for j in cluster)
Fits(m, i, cluster) ==
    \A k \in 1..Len(cluster) : m[i][cluster[k]] < RmsdThreshold

RECURSIVE FirstFit(_, _, _, _)
\* lines 624-628: the position of the first cluster, from position k on,
\* that conformer i fits; 0 when there is none
FirstFit(m, i, cs, k) ==
    IF k > Len(cs) THEN 0
    ELSE IF Fits(m, i, cs[k]) THEN k
    ELSE FirstFit(m, i, cs, k + 1)

RECURSIVE LastFit(_, _, _, _)
LastFit(m, i, cs, k) ==
    IF k < 1 THEN 0
    ELSE IF Fits(m, i, cs[k]) THEN k
    ELSE LastFit(m, i, cs, k - 1)

\* a search that starts from the cluster created last
PlaceInLatest(m, i, cs) ==
    LET k == LastFit(m, i, cs, Len(cs))
    IN  IF k = 0 THEN Append(cs, << i >>)
        ELSE [cs EXCEPT ![k] = Append(cs[k], i)]

\* lines 623-630: conformer i joins the first cluster it fits, or starts one
Place(m, i, cs) ==
    LET k == FirstFit(m, i, cs, 1)
    IN  IF k = 0 THEN Append(cs, << i >>)
        ELSE [cs EXCEPT ![k] = Append(cs[k], i)]

NMol == Cardinality(DOMAIN rmsd_matrix)

ClusterIdle ==
    /\ best_rms = << >>
    /\ rmsd_matrix = << >>
    /\ clusters = << >>
    /\ cl_i = None

ClusterInit ==
    /\ \E n \in 0..MaxMol :
        /\ best_rms \in [Combinations2(n) -> RmsdVals]
        /\ rmsd_matrix = BuildRmsdMatrix(n, best_rms)
    /\ clusters = << >>
    /\ cl_i = 0

\* one pass of the loop of line 622
PlaceConformer ==
    /\ cl_i # None
    /\ cl_i < NMol
    /\ clusters' = Place(rmsd_matrix, cl_i, clusters)
    /\ cl_i' = cl_i + 1
    /\ UNCHANGED << best_rms, rmsd_matrix >>
    /\ UNCHANGED not_cluster_vars

\* line 268 of generate_additional_conformers: cluster[0] of each cluster
Representatives == [k \in 1..Len(clusters) |-> clusters[k][1]]

---------------------------------------------------------------------------
(* get_bonds, get_active_bonds *)

BondAtoms == 3           \* atoms (and map numbers 1..BondAtoms) of a molecule
MaxBonds  == 1           \* bonds of a molecule

\* Chem.BondType as twice GetBondTypeAsDouble: single, aromatic, double
BondTypes == {2, 3, 4}

\* a molecule: atoms[idx + 1] is the map number of atom idx; a bond has the
\* indices of its begin and end atom and its type
GetAtomMapNum(mol, idx) == mol.atoms[idx + 1]

\* Python's round() of type/2: halves go to the even neighbour
BondOrder(type) ==
    IF type % 2 = 0 THEN type \div 2
    ELSE IF (type \div 2) % 2 = 0 THEN type \div 2 ELSE (type \div 2) + 1

\* a descriptor that keeps the bond's own begin/end order
DescriptorUnsorted(mol, bond) ==
    << GetAtomMapNum(mol, bond.begin), GetAtomMapNum(mol, bond.end),
       BondOrder(bond.type) >>

\* lines 817-824: f'{atom_1}-{atom_2}-{num_bonds}', smaller map number first
Descriptor(mol, bond) ==
    LET atom_1 == GetAtomMapNum(mol, bond.begin)
        atom_2 == GetAtomMapNum(mol, bond.end)
        num_bonds == BondOrder(bond.type)
    IN  IF atom_1 < atom_2 THEN << atom_1, atom_2, num_bonds >>
        ELSE << atom_2, atom_1, num_bonds >>

get_bonds(mol) == { Descriptor(mol, bond) : bond \in mol.bonds }

get_active_bonds(r_mol, p_mol) ==
    LET reactant_bonds == get_bonds(r_mol)
        product_bonds == get_bonds(p_mol)
    IN  [formed |-> product_bonds \ reactant_bonds,
         broken |-> reactant_bonds \ product_bonds]

AllBonds ==
    { b \in [begin : 0..(BondAtoms - 1), end : 0..(BondAtoms - 1), type : BondTypes] :
        b.begin # b.end }

Ends(b) == {b.begin, b.end}

RECURSIVE BondSets(_)
\* the bond sets of at most k bonds, no two between the same two atoms
BondSets(k) ==
    IF k = 0 THEN { {} }
    ELSE LET smaller == BondSets(k - 1)
         IN  smaller \cup
             { B \cup {b} : << B, b >> \in
                 { x \in smaller \X AllBonds :
                     \A c \in x[1] : Ends(c) # Ends(x[2]) } }

IdentityOrder == [i \in 1..BondAtoms |-> i]
ReversedOrder == [i \in 1..BondAtoms |-> BondAtoms + 1 - i]

BondIdle ==
    /\ reactant_mol = << >>
    /\ product_mol = << >>
    /\ formed_bonds = {}
    /\ broken_bonds = {}
    /\ bonds_pc = "idle"

BondInit ==
    /\ reactant_mol \in [atoms : {IdentityOrder}, bonds : BondSets(MaxBonds)]
    /\ product_mol \in [atoms : {IdentityOrder, ReversedOrder}, bonds : BondSets(MaxBonds)]
    /\ formed_bonds = {}
    /\ broken_bonds = {}
    /\ bonds_pc = "input"

GetActiveBonds ==
    /\ bonds_pc = "input"
    /\ LET active == get_active_bonds(reactant_mol, product_mol)
       IN  /\ formed_bonds' = active.formed
           /\ broken_bonds' = active.broken
    /\ bonds_pc' = "output"
    /\ UNCHANGED << reactant_mol, product_mol >>
    /\ UNCHANGED not_bond_vars

---------------------------------------------------------------------------
(* determine_potential on its own *)

PotPairs == 2            \* constrained pairs (0,1), (1,2), ...
PotSteps == 2            \* a trajectory of 1..PotSteps geometries

PotKeys    == { << a, a + 1 >> : a \in 0..(PotPairs - 1) }
PotTargets == {15, 20}
PotDists   == {15, 20}
PotFcs     == {-1, 0, 1, 2}

PotIdle ==
    /\ pot_coords = << >>
    /\ pot_constraints = << >>
    /\ pot_fc = None
    /\ pot_profile = << >>
    /\ pot_pc = "idle"

PotInit ==
    /\ \E n \in 1..PotSteps : \E gs \in [1..n -> [PotKeys -> PotDists]] :
        pot_coords = [k \in 1..n |-> [step |-> k - 1, dist |-> gs[k]]]
    /\ \E K \in SUBSET PotKeys : pot_constraints \in [K -> PotTargets]
    /\ pot_fc \in PotFcs
    /\ pot_profile = << >>
    /\ pot_pc = "input"

DeterminePotential ==
    /\ pot_pc = "input"
    /\ pot_profile' = determine_potential(pot_coords, pot_constraints, pot_fc)
    /\ pot_pc' = "output"
    /\ UNCHANGED << pot_coords, pot_constraints, pot_fc >>
    /\ UNCHANGED not_pot_vars

---------------------------------------------------------------------------
(* find_ts_guess, lines 38-83: the distance constraints of both embeddings *)

MergeKeys == 2           \* atom pairs (0,1), (1,2), ... a map can hold

BondLengths == {13, 15}  \* what the engine can report for a bond, in 0.1 A

\* the map numbers of a molecule
MapNums(mol) == { mol.atoms[i] : i \in DOMAIN mol.atoms }

RECURSIVE Reach(_, _)
\* the map numbers joined to those of S by bonds of mol
Reach(mol, S) ==
    LET T == S \cup
             { m \in MapNums(mol) : \E b \in mol.bonds :
                 \/ GetAtomMapNum(mol, b.begin) \in S /\ GetAtomMapNum(mol, b.end) = m
                 \/ GetAtomMapNum(mol, b.end) \in S /\ GetAtomMapNum(mol, b.begin) = m }
    IN  IF T = S THEN S ELSE Reach(mol, T)

\* lines 731-735: the '.'-separated fragment that holds each map number; a
\* fragment is named by its atoms, the SMILES writes one per connected part
owning_mol_dict(mol) == [m \in MapNums(mol) |-> Reach(mol, {m})]

\* len(smiles.split('.'))
n_components(mol) == Cardinality({ owning_mol_dict(mol)[m] : m \in MapNums(mol) })

\* line 46: {atom.GetAtomMapNum(): atom.GetIdx() for atom in mol.GetAtoms()}
MapnumDict(mol) ==
    [m \in MapNums(mol) |-> (CHOOSE i \in DOMAIN mol.atoms : mol.atoms[i] = m) - 1]

\* lines 716-761: the bond i-j-order is measured in the fragment of mol that
\* holds both atoms and stored under (mapnum_dict[i], mapnum_dict[j])
get_optimal_distances(mol, mapnum_dict, bonds, lengths) ==
    LET owner == owning_mol_dict(mol)
        key(b) == << mapnum_dict[b[1]], mapnum_dict[b[2]] >>
    IN  IF \E b \in bonds : owner[b[1]] # owner[b[2]]
        THEN [raised |-> TRUE, optimal_distances |-> << >>]
        ELSE [raised |-> FALSE,
              optimal_distances |->
                [k \in { key(b) : b \in bonds } |->
                    lengths[(CHOOSE b \in bonds : key(b) = k)[3]]]]

\* lines 51-52 and 70-71: a copy with every distance doubled
Stretched(d) == [k \in DOMAIN d |-> 2 * d[k]]

\* a merge in which the other side's distance replaces the side's own
CombineOverwriting(primary, stretched, n_comp) ==
    IF n_comp # 1 THEN stretched @@ primary ELSE primary

\* lines 55-59 and 72-76: the side's own map, and for a SMILES of several
\* components the other side's stretched distances under the keys it lacks
Combine(primary, stretched, n_comp) ==
    IF n_comp # 1 THEN primary @@ stretched ELSE primary

\* the molecules as the SMILES list them: a bond from the lower to the
\* higher atom index, single or double
ListedBondSets ==
    { B \in BondSets(MaxBonds) : \A b \in B : b.begin < b.end /\ b.type # 3 }

ConsBondInit ==
    /\ reactant_mol \in [atoms : {IdentityOrder}, bonds : ListedBondSets]
    /\ product_mol \in [atoms : {IdentityOrder, ReversedOrder}, bonds : ListedBondSets]
    /\ formed_bonds = {}
    /\ broken_bonds = {}
    /\ bonds_pc = "input"

ConsIdle ==
    /\ cons_pc = "idle"
    /\ xtb_length = << >>
    /\ r_components = None /\ p_components = None
    /\ full_reactant_dict = << >>
    /\ breaking_constraints = << >>
    /\ reactant_constraints = << >>
    /\ product_constraints = << >>

\* find_ts_guess entered with the two molecules parsed (lines 38-39)
ConsInit ==
    /\ cons_pc = "start"
    /\ xtb_length \in [1..2 -> BondLengths]
    /\ r_components = n_components(reactant_mol)
    /\ p_components = n_components(product_mol)
    /\ full_reactant_dict = << >>
    /\ breaking_constraints = << >>
    /\ reactant_constraints = << >>
    /\ product_constraints = << >>

\* the variables of the scan other than formation_constraints
scan_later_vars ==
    << pc, conformers_to_do, fc_min, fc_max, fc_delta, conf_pos, conformer,
       fc_pos, force_constant, energies, coords, potentials,
       preliminary_ts_guess_index, index, opt_calls, freq_calls, files,
       file_writes, result >>

\* lines 46-50: full_reactant_dict and both calls of get_optimal_distances,
\* each with full_reactant_dict
GetOptimalDistances ==
    /\ cons_pc = "start"
    /\ bonds_pc = "output"
    /\ LET dict == MapnumDict(reactant_mol)
           formation == get_optimal_distances(product_mol, dict, formed_bonds, xtb_length)
           breaking == get_optimal_distances(reactant_mol, dict, broken_bonds, xtb_length)
       IN  /\ full_reactant_dict' = dict
           /\ IF formation.raised \/ breaking.raised
              THEN /\ cons_pc' = "KeyError"
                   /\ UNCHANGED << formation_constraints, breaking_constraints >>
              ELSE /\ cons_pc' = "merge_reactant"
                   /\ formation_constraints' = formation.optimal_distances
                   /\ breaking_constraints' = breaking.optimal_distances
    /\ UNCHANGED << xtb_length, r_components, p_components, reactant_constraints,
                    product_constraints >>
    /\ UNCHANGED << scan_later_vars, index_vars, cluster_vars, bond_vars,
                    pot_vars, stereo_vars >>

\* lines 51-67: the constraints of the reactant's embedding
MergeReactant ==
    /\ cons_pc = "merge_reactant"
    /\ reactant_constraints' = Combine(breaking_constraints,
                              Stretched(formation_constraints), r_components)
    /\ cons_pc' = "merge_product"
    /\ UNCHANGED << xtb_length, r_components, p_components, full_reactant_dict,
                    breaking_constraints, product_constraints >>
    /\ UNCHANGED << scan_vars, index_vars, cluster_vars, bond_vars, pot_vars,
                    stereo_vars >>

\* lines 70-83: the constraints of the product's embedding
MergeProduct ==
    /\ cons_pc = "merge_product"
    /\ product_constraints' = Combine(formation_constraints,
                                      Stretched(breaking_constraints), p_components)
    /\ cons_pc' = "done"
    /\ UNCHANGED << xtb_length, r_components, p_components, full_reactant_dict,
                    breaking_constraints, reactant_constraints >>
    /\ UNCHANGED << scan_vars, index_vars, cluster_vars, bond_vars, pot_vars,
                    stereo_vars >>

\* the merges on their own: any two maps get_optimal_distances can return
MergeKeySet == { << k - 1, k >> : k \in 1..MergeKeys }

MergeMaps == UNION { [K -> BondLengths] : K \in SUBSET MergeKeySet }

\* find_ts_guess at line 51, the scan not yet begun
MergeInit ==
    /\ cons_pc = "merge_reactant"
    /\ xtb_length = (1 :> 15 @@ 2 :> 13)
    /\ r_components \in 1..2
    /\ p_components \in 1..2
    /\ full_reactant_dict = [m \in 1..(MergeKeys + 1) |-> m - 1]
    /\ formation_constraints \in MergeMaps
    /\ breaking_constraints \in MergeMaps
    /\ reactant_constraints = << >>
    /\ product_constraints = << >>
    /\ pc = "idle"
    /\ conformers_to_do = << >>
    /\ fc_min = None /\ fc_max = None /\ fc_delta = None
    /\ conf_pos = 0 /\ conformer = None
    /\ fc_pos = 0 /\ force_constant = None
    /\ energies = << >> /\ coords = << >> /\ potentials = << >>
    /\ preliminary_ts_guess_index = None /\ index = None
    /\ opt_calls = << >> /\ freq_calls = << >>
    /\ files = << >> /\ file_writes = {}
    /\ result = [kind |-> "running", fc |-> None]

---------------------------------------------------------------------------
(* optimize_molecule_with_extra_constraints *)

MaxDouble == 1           \* double bonds of the molecule
MaxAttempts == 100       \* line 304: for n in range(100)

\* Chem.FindMolChiralCenters: a list of (atom index, 'R' or 'S')
CenterLists == { << >>, << << 0, "R" >> >>, << << 0, "S" >> >> }

BondStereo == {"STEREONONE", "STEREOZ", "STEREOE"}

\* the dihedral about a double bond as the embedding leaves it, in degrees
EmbeddedDihedrals == {60, 180}

\* a double bond: its stereo flag in the input SMILES, and whether both of
\* its atoms have a neighbour whose map number follows a '/' or '\' of the
\* SMILES (extract_atom_map_numbers, lines 457-458).  The two parses of the
\* molecule are taken to number its atoms alike.
DoubleBondLists ==
    UNION { [1..n -> [stereo : BondStereo, flanked : BOOLEAN]] : n \in 0..MaxDouble }

RECURSIVE assign_cis_trans_from_geometry(_, _, _)
\* lines 449-469, for the double bonds from number k on: d is the conformer
assign_cis_trans_from_geometry(bonds, d, k) ==
    IF k > Len(bonds) THEN [raised |-> FALSE, conf |-> d]
    ELSE IF ~bonds[k].flanked
         THEN assign_cis_trans_from_geometry(bonds, d, k + 1)
    ELSE IF bonds[k].stereo = "STEREOZ"
         THEN assign_cis_trans_from_geometry(bonds, [d EXCEPT ![k] = 0], k + 1)
    ELSE IF bonds[k].stereo = "STEREOE"
         THEN assign_cis_trans_from_geometry(bonds, [d EXCEPT ![k] = 180], k + 1)
    ELSE [raised |-> TRUE, conf |-> d]

StereoIdle ==
    /\ st_pc = "idle"
    /\ stereochemistry_smiles = << >>
    /\ double_bonds = << >>
    /\ n_attempt = 0
    /\ dihedrals = None
    /\ init_xyz = None

\* line 302 reached: the chiral centers of the SMILES are known
StereoInit ==
    /\ st_pc = "loop"
    /\ stereochemistry_smiles \in CenterLists
    /\ double_bonds \in DoubleBondLists
    /\ n_attempt = 0
    /\ dihedrals = None
    /\ init_xyz = None

\* lines 304-310: one attempt; n_attempt counts the attempts made
Embed ==
    /\ st_pc = "loop"
    /\ n_attempt < MaxAttempts
    /\ \E d \in [DOMAIN double_bonds -> EmbeddedDihedrals] :
       \E stereochemistry_xyz \in CenterLists :
        /\ dihedrals' = d
        /\ init_xyz' = d
        /\ n_attempt' = n_attempt + 1
        /\ st_pc' = IF \/ stereochemistry_smiles = stereochemistry_xyz
                       \/ n_attempt + 1 = MaxAttempts
                    THEN "after_loop" ELSE "loop"
    /\ UNCHANGED << stereochemistry_smiles, double_bonds >>
    /\ UNCHANGED not_stereo_vars

\* lines 312-318: the cis/trans step and the file the function returns
AssignCisTrans ==
    /\ st_pc = "after_loop"
    /\ IF Len(stereochemistry_smiles) # 0
       THEN LET r == assign_cis_trans_from_geometry(double_bonds, dihedrals, 1)
            IN  /\ dihedrals' = r.conf
                /\ IF r.raised
                   THEN /\ st_pc' = "KeyError"
                        /\ UNCHANGED init_xyz
                   ELSE /\ st_pc' = "done"
                        /\ init_xyz' = r.conf
       ELSE /\ st_pc' = "done"
            /\ UNCHANGED << dihedrals, init_xyz >>
    /\ UNCHANGED << stereochemistry_smiles, double_bonds, n_attempt >>
    /\ UNCHANGED not_stereo_vars

---------------------------------------------------------------------------
(* The specifications *)

Init == ScanInit /\ IndexIdle /\ ClusterIdle /\ BondIdle /\ PotIdle
    /\ ConsIdle /\ StereoIdle

Next == ScanNext

Spec == Init /\ [][Next]_vars

InitIndex == IndexInit /\ ScanIdle /\ ClusterIdle /\ BondIdle /\ PotIdle
    /\ ConsIdle /\ StereoIdle

NextIndex == SelectIndex

SpecIndex == InitIndex /\ [][NextIndex]_vars

InitCluster == ClusterInit /\ ScanIdle /\ IndexIdle /\ BondIdle /\ PotIdle
    /\ ConsIdle /\ StereoIdle

NextCluster == PlaceConformer

SpecCluster == InitCluster /\ [][NextCluster]_vars

InitBonds == BondInit /\ ScanIdle /\ IndexIdle /\ ClusterIdle /\ PotIdle
    /\ ConsIdle /\ StereoIdle

NextBonds == GetActiveBonds

SpecBonds == InitBonds /\ [][NextBonds]_vars

InitPotential == PotInit /\ ScanIdle /\ IndexIdle /\ ClusterIdle /\ BondIdle
    /\ ConsIdle /\ StereoIdle

NextPotential == DeterminePotential

SpecPotential == InitPotential /\ [][NextPotential]_vars

InitFinal == FinalInit /\ IndexIdle /\ ClusterIdle /\ BondIdle /\ PotIdle
    /\ ConsIdle /\ StereoIdle

NextFinal == Candidate \/ Fallback

SpecFinal == InitFinal /\ [][NextFinal]_vars

InitConstraints ==
    ConsBondInit /\ ConsInit /\ ScanIdle /\ IndexIdle /\ ClusterIdle /\ PotIdle
    /\ StereoIdle

NextConstraints ==
    GetActiveBonds \/ GetOptimalDistances \/ MergeReactant \/ MergeProduct

SpecConstraints == InitConstraints /\ [][NextConstraints]_vars

InitMerge ==
    MergeInit /\ IndexIdle /\ ClusterIdle /\ BondIdle /\ PotIdle /\ StereoIdle

NextMerge == MergeReactant \/ MergeProduct

SpecMerge == InitMerge /\ [][NextMerge]_vars

InitStereo ==
    StereoInit /\ ScanIdle /\ IndexIdle /\ ClusterIdle /\ BondIdle /\ PotIdle
    /\ ConsIdle

NextStereo == Embed \/ AssignCisTrans

SpecStereo == InitStereo /\ [][NextStereo]_vars

---------------------------------------------------------------------------
(* Claims about find_ts_guess *)

HasTsGuessFile == \E n \in DOMAIN files : n.base = "ts_guess.xyz"

\* C1: for the conformer being scanned the force constants are tried in
\* ascending order fc_min, fc_min + fc_delta, ... (all below fc_max); every
\* run before the last one tried ended with a final-step potential above
\* 0.01, so no run follows one that reached the product; and the accepted
\* force constant, the one handed to index selection and validation and
\* naming the returned file, is that of the first run that reached it.
C1_ScanStopsAtFirstReached ==
    /\ \A i \in 1..Len(opt_calls) :
        /\ opt_calls[i].fc = fc_min + (i - 1) * fc_delta
        /\ opt_calls[i].fc < fc_max
        /\ opt_calls[i].conformer = conformer
    /\ \A i \in 1..(Len(opt_calls) - 1) : opt_calls[i].final > PotentialThreshold
    /\ preliminary_ts_guess_index # None =>
        /\ opt_calls # << >>
        /\ opt_calls[Len(opt_calls)].final <= PotentialThreshold
        /\ opt_calls[Len(opt_calls)].fc = force_constant
    /\ result.kind = "file" =>
        /\ preliminary_ts_guess_index # None
        /\ result.fc = force_constant

\* a scan that skipped one force constant and accepted the next
C1_Witness ==
    /\ pc = "done"
    /\ result.kind = "file"
    /\ Len(opt_calls) >= 2
    /\ opt_calls[1].final > PotentialThreshold

\* C2: when find_ts_guess returns, every conformer of conformers_to_do has
\* been entered by the loop of line 96.
C2_EveryConformerScanned ==
    (pc = "done" /\ result.kind \in {"None", "file"})
        => conf_pos = Len(conformers_to_do)

\* C3: if no biased run reached the product, find_ts_guess returns None:
\* it does not raise, the frequency engine was not invoked and no TS-guess
\* geometry file was written.
C3_ExhaustionReturnsNone ==
    (pc = "done" /\ preliminary_ts_guess_index = None)
        => /\ result.kind = "None"
           /\ freq_calls = << >>
           /\ ~HasTsGuessFile

\* C9: no file name is written by two distinct units of work (a conformer
\* combined with one force constant).
C9_FileNamesUniquePerUnit ==
    \A a \in file_writes : \A b \in file_writes :
        a.name = b.name => a.unit = b.unit

\* C10: the frequency engine is invoked once per candidate step examined,
\* and the biased optimizer once per force constant tried.
C10_EngineCallsNotRepeated ==
    /\ \A i \in DOMAIN freq_calls : \A j \in DOMAIN freq_calls :
        i # j => freq_calls[i].index # freq_calls[j].index
    /\ \A i \in DOMAIN opt_calls : \A j \in DOMAIN opt_calls :
        i # j => opt_calls[i].fc # opt_calls[j].fc

---------------------------------------------------------------------------
(* Claims about get_ts_guess_index *)

TrueEnergyAt(i) == ix_energies[i + 1] - ix_potentials[i + 1]

\* C4: for a non-empty profile the returned index i satisfies
\* 0 <= i < length, energies[i] - potentials[i] is the maximum of the
\* bias-corrected energies, and no smaller index attains that maximum.
C4_IndexIsFirstMaximum ==
    ts_guess_index # None =>
        /\ ts_guess_index \in 0..(Len(ix_energies) - 1)
        /\ \A j \in 0..(Len(ix_energies) - 1) :
            TrueEnergyAt(j) <= TrueEnergyAt(ts_guess_index)
        /\ \A j \in 0..(ts_guess_index - 1) :
            TrueEnergyAt(j) < TrueEnergyAt(ts_guess_index)

\* the maximum is attained twice, not at step 0, and not where the raw
\* energy is largest
C4_Witness ==
    /\ ts_guess_index # None
    /\ ts_guess_index >= 1
    /\ \E j \in (ts_guess_index + 1)..(Len(ix_energies) - 1) :
        TrueEnergyAt(j) = TrueEnergyAt(ts_guess_index)
    /\ \E j \in 1..Len(ix_energies) : ix_energies[j] > ix_energies[ts_guess_index + 1]

---------------------------------------------------------------------------
(* Claims about get_active_bonds *)

Flipped(bond) == [begin |-> bond.end, end |-> bond.begin, type |-> bond.type]

MapPair(mol, bond) ==
    {GetAtomMapNum(mol, bond.begin), GetAtomMapNum(mol, bond.end)}

\* C5: formed and broken are disjoint; a bond between the same two map
\* numbers with the same bond order in both molecules is in neither set,
\* whichever endpoint each molecule stores as the begin atom; and the
\* descriptor of a bond equals that of the bond with its endpoints swapped.
C5_ActiveBondsDisjoint ==
    bonds_pc = "output" =>
        /\ formed_bonds \cap broken_bonds = {}
        /\ \A rb \in reactant_mol.bonds : \A pb \in product_mol.bonds :
            ( /\ MapPair(reactant_mol, rb) = MapPair(product_mol, pb)
              /\ BondOrder(rb.type) = BondOrder(pb.type) )
            => \A d \in formed_bonds \cup broken_bonds :
                 {d[1], d[2]} # MapPair(reactant_mol, rb)
        /\ \A b \in reactant_mol.bonds :
            Descriptor(reactant_mol, b) = Descriptor(reactant_mol, Flipped(b))
        /\ \A b \in product_mol.bonds :
            Descriptor(product_mol, b) = Descriptor(product_mol, Flipped(b))

\* the same bond stored from opposite ends in the two molecules
C5_Witness ==
    /\ bonds_pc = "output"
    /\ \E rb \in reactant_mol.bonds : \E pb \in product_mol.bonds :
        /\ GetAtomMapNum(reactant_mol, rb.begin) = GetAtomMapNum(product_mol, pb.end)
        /\ GetAtomMapNum(reactant_mol, rb.end) = GetAtomMapNum(product_mol, pb.begin)
        /\ rb.type = pb.type
    /\ formed_bonds = {}
    /\ broken_bonds = {}

---------------------------------------------------------------------------
(* Claims about determine_potential *)

OnTarget(k) ==
    \A key \in DOMAIN pot_constraints :
        pot_coords[k].dist[key] = pot_constraints[key]

\* C6 as stated: for any force constant every value of the profile is
\* non-negative, and it is zero exactly when every constrained pair is at
\* its target distance.
C6_PotentialNonNegativeZeroIff ==
    pot_pc = "output" =>
        \A k \in 1..Len(pot_profile) :
            /\ pot_profile[k] >= 0
            /\ (pot_profile[k] = 0) <=> OnTarget(k)

\* C6 amended: the same for a positive force constant; and for every force
\* constant a geometry with all constrained pairs on target has potential 0.
C6_PositiveForceConstant ==
    pot_pc = "output" =>
        /\ Len(pot_profile) = Len(pot_coords)
        /\ \A k \in 1..Len(pot_profile) :
            /\ OnTarget(k) => pot_profile[k] = 0
            /\ pot_fc > 0 =>
                /\ pot_profile[k] >= 0
                /\ (pot_profile[k] = 0) <=> OnTarget(k)

\* a positive force constant, one step on target and one off target with
\* the pair shorter than its target
C6_Witness ==
    /\ pot_pc = "output"
    /\ pot_fc > 0
    /\ DOMAIN pot_constraints # {}
    /\ \E k \in 1..Len(pot_profile) : pot_profile[k] = 0
    /\ \E k \in 1..Len(pot_profile) :
        /\ pot_profile[k] > 0
        /\ \E key \in DOMAIN pot_constraints :
            pot_coords[k].dist[key] < pot_constraints[key]

---------------------------------------------------------------------------
(* Claims about count_unique_conformers *)

Members(cluster) == { cluster[k] : k \in 1..Len(cluster) }

\* C7: the clusters partition the conformers placed so far (all of
\* 0..n-1 when the loop ends), and two members of one cluster, the first
\* member among them, have RMSD < 0.5.
C7_ClustersPartitionWithinThreshold ==
    cl_i # None =>
        /\ \A i \in 0..(cl_i - 1) :
            Cardinality({ k \in 1..Len(clusters) :
                \E q \in 1..Len(clusters[k]) : clusters[k][q] = i }) = 1
        /\ \A k \in 1..Len(clusters) :
            /\ Len(clusters[k]) >= 1
            /\ Members(clusters[k]) \subseteq 0..(cl_i - 1)
            /\ Cardinality(Members(clusters[k])) = Len(clusters[k])
            /\ \A a \in Members(clusters[k]) : \A b \in Members(clusters[k]) :
                a # b => rmsd_matrix[a][b] < RmsdThreshold

\* all conformers placed: a cluster of two that the third conformer, within
\* 0.5 of its first member only, did not join
C7_Witness ==
    /\ cl_i # None
    /\ cl_i = NMol
    /\ NMol = 3
    /\ clusters = << << 0, 1 >>, << 2 >> >>
    /\ rmsd_matrix[2][0] < RmsdThreshold
    /\ rmsd_matrix[2][1] = RmsdThreshold

ScenarioD ==
    /\ NMol = 3
    /\ rmsd_matrix[0][1] = 30
    /\ rmsd_matrix[0][2] = 30
    /\ rmsd_matrix[1][2] = 70

\* the cluster (position in clusters) that holds conformer i
ClusterOf(i) == CHOOSE k \in 1..Len(clusters) : i \in Members(clusters[k])

\* C8: conformers are placed in ascending index order, each into the
\* earliest-created cluster all of whose members at that time are within
\* RMSD < 0.5 of it, a new cluster otherwise; so every cluster lists its
\* members in ascending order, its first member (the representative) is its
\* smallest index, clusters are in order of creation, and Scenario D gives
\* [[0,1],[2]].
C8_FirstSeenWins ==
    cl_i # None =>
        /\ \A k \in 1..Len(clusters) : \A q \in 1..(Len(clusters[k]) - 1) :
            clusters[k][q] < clusters[k][q + 1]
        /\ \A k \in 1..(Len(clusters) - 1) : clusters[k][1] < clusters[k + 1][1]
        /\ \A k \in 1..Len(clusters) :
            /\ Representatives[k] \in Members(clusters[k])
            /\ \A a \in Members(clusters[k]) : Representatives[k] <= a
        /\ \A i \in 0..(cl_i - 1) :
            \* every cluster created before i's that existed when i was placed
            \* held a member too far from i
            \A k \in 1..(ClusterOf(i) - 1) :
                \E j \in Members(clusters[k]) :
                    j < i /\ ~(rmsd_matrix[i][j] < RmsdThreshold)
        /\ \A i \in 0..(cl_i - 1) :
            \* i started a cluster only when it fitted none
            clusters[ClusterOf(i)][1] = i =>
                \A k \in 1..Len(clusters) : clusters[k][1] < i =>
                    \E j \in Members(clusters[k]) :
                        j < i /\ ~(rmsd_matrix[i][j] < RmsdThreshold)
        /\ (ScenarioD /\ cl_i = NMol) => clusters = << << 0, 1 >>, << 2 >> >>

\* Scenario D, clustered
C8_Witness ==
    /\ cl_i # None
    /\ ScenarioD
    /\ cl_i = NMol
    /\ clusters = << << 0, 1 >>, << 2 >> >>

---------------------------------------------------------------------------
(* Claims about get_final_ts_guess_geometry *)

\* the candidate steps handed to the frequency engine, in call order
Examined == [i \in DOMAIN freq_calls |-> freq_calls[i].index]

ExaminedSet == { freq_calls[i].index : i \in DOMAIN freq_calls }

\* some frequency run reported exactly one negative frequency
Accepted == \E i \in DOMAIN freq_calls : freq_calls[i].neg = 1

Returned == pc = "done" /\ freq_calls # << >>

\* C13: the candidates are examined in ascending order starting at the
\* selected index; a candidate with exactly one negative frequency is the
\* last one examined, the function returns at it and the returned file holds
\* that step's geometry; a candidate with zero or with two or more negative
\* frequencies is passed over, so a return that follows one comes only
\* after the window is used up.
C13_FirstSingleNegativeAccepted ==
    /\ freq_calls # << >> => Examined[1] = preliminary_ts_guess_index
    /\ \A i \in 1..(Len(freq_calls) - 1) :
        /\ Examined[i + 1] \in { Examined[i], Examined[i] + 1 }
        /\ freq_calls[i].neg # 1
    /\ \A i \in DOMAIN freq_calls :
        freq_calls[i].neg = 1 =>
            /\ i = Len(freq_calls)
            /\ pc = "done"
            /\ result = [kind |-> "file", fc |-> force_constant]
            /\ files[TsGuessFile(force_constant)].step = freq_calls[i].index
    /\ (Returned /\ freq_calls[Len(freq_calls)].neg # 1) => index >= WindowEnd

\* a zero and a two-or-more candidate were passed over, the third accepted
C13_Witness ==
    /\ pc = "done"
    /\ Accepted
    /\ \E i \in DOMAIN freq_calls : freq_calls[i].neg = 0
    /\ \E i \in DOMAIN freq_calls : freq_calls[i].neg = 2
    /\ files[TsGuessFile(force_constant)].step = preliminary_ts_guess_index + 2

\* C14: the candidates of one call are exactly the indices
\* p .. min(p + 6, L - 1), p the selected index and L the number of logged
\* steps: a return without an accepted candidate has examined all of them,
\* step p + 6 included, and no index at or beyond L is ever read.
C14_WindowSixFurtherSteps ==
    /\ \A k \in ExaminedSet : k < Len(coords)
    /\ (Returned /\ ~Accepted) =>
        ExaminedSet = preliminary_ts_guess_index ..
                        Min2(preliminary_ts_guess_index + 6, Len(coords) - 1)

\* C15: if no candidate of the window has exactly one negative frequency
\* the function still returns a file, and that file holds the geometry of
\* the originally selected index.
C15_FallbackKeepsSelectedIndex ==
    (Returned /\ ~Accepted) =>
        /\ result = [kind |-> "file", fc |-> force_constant]
        /\ TsGuessFile(force_constant) \in DOMAIN files
        /\ files[TsGuessFile(force_constant)] =
                Content(Unit(conformer, force_constant), preliminary_ts_guess_index)

\* a fallback after later candidates had overwritten the file
C15_Witness ==
    /\ Returned
    /\ ~Accepted
    /\ \E k \in ExaminedSet : k > preliminary_ts_guess_index

---------------------------------------------------------------------------
(* Claims about the distance constraints *)

\* the key names, in the numbering of mol, the two atoms of an active bond
KeyOfActiveBond(mol, key) ==
    /\ key[1] \in 0..(Len(mol.atoms) - 1)
    /\ key[2] \in 0..(Len(mol.atoms) - 1)
    /\ \E b \in formed_bonds \cup broken_bonds :
        /\ GetAtomMapNum(mol, key[1]) = b[1]
        /\ GetAtomMapNum(mol, key[2]) = b[2]

\* C11: every constraint map is keyed by the atom indices of the molecule
\* it is applied to: the keys of the map handed to the reactant's embedding
\* are the reactant's indices of an active bond's atoms, and the keys of
\* the map handed to the product's embedding are the product's indices of
\* an active bond's atoms, also when the two SMILES list the atoms in
\* different orders.
C11_KeysIndexOwnMolecule ==
    cons_pc = "done" =>
        /\ \A key \in DOMAIN reactant_constraints : KeyOfActiveBond(reactant_mol, key)
        /\ \A key \in DOMAIN product_constraints : KeyOfActiveBond(product_mol, key)

\* C12: in either merge every key of the side's own map keeps its own,
\* undoubled distance; a key the side's map lacks is there only if the
\* side's SMILES has more than one component, it is a key of the other
\* side's map and its distance is exactly twice the other side's; and the
\* formation and breaking maps are left as they were.
C12_MergeState ==
    /\ cons_pc \in {"merge_product", "done"} =>
        /\ \A k \in DOMAIN breaking_constraints :
            /\ k \in DOMAIN reactant_constraints
            /\ reactant_constraints[k] = breaking_constraints[k]
        /\ \A k \in (DOMAIN reactant_constraints) \ (DOMAIN breaking_constraints) :
            /\ r_components > 1
            /\ k \in DOMAIN formation_constraints
            /\ reactant_constraints[k] = 2 * formation_constraints[k]
    /\ cons_pc = "done" =>
        /\ \A k \in DOMAIN formation_constraints :
            /\ k \in DOMAIN product_constraints
            /\ product_constraints[k] = formation_constraints[k]
        /\ \A k \in (DOMAIN product_constraints) \ (DOMAIN formation_constraints) :
            /\ p_components > 1
            /\ k \in DOMAIN breaking_constraints
            /\ product_constraints[k] = 2 * breaking_constraints[k]

C12_MergeKeepsOwnAddsDoubled ==
    /\ []C12_MergeState
    /\ [][ /\ formation_constraints' = formation_constraints
           /\ breaking_constraints' = breaking_constraints ]_vars

\* a one-component reactant and a two-component product; the pair (0,1)
\* is in both maps with different distances, the pair (1,2) only in the
\* breaking map: the product's map gained it doubled, the reactant's map
\* gained nothing
C12_Witness ==
    /\ cons_pc = "done"
    /\ r_components = 1
    /\ p_components = 2
    /\ formation_constraints = (<< 0, 1 >> :> 13)
    /\ breaking_constraints = (<< 0, 1 >> :> 15 @@ << 1, 2 >> :> 15)
    /\ reactant_constraints = breaking_constraints
    /\ product_constraints = (<< 0, 1 >> :> 13 @@ << 1, 2 >> :> 30)

---------------------------------------------------------------------------
(* Claims about optimize_molecule_with_extra_constraints *)

StereoMarked(k) == double_bonds[k].stereo \in {"STEREOZ", "STEREOE"}

TargetDihedral(k) == IF double_bonds[k].stereo = "STEREOZ" THEN 0 ELSE 180

\* C16: for a molecule with at least one stereo-marked double bond the
\* function ends with a written geometry in which the dihedral about every
\* stereo-marked double bond is 0 degrees (Z) or 180 degrees (E), whether
\* or not the molecule has chiral centers.
C16_StereoBondsSetInWrittenGeometry ==
    (st_pc \in {"done", "KeyError"} /\ \E k \in DOMAIN double_bonds : StereoMarked(k))
        => /\ st_pc = "done"
           /\ \A k \in DOMAIN double_bonds :
                StereoMarked(k) => init_xyz[k] = TargetDihedral(k)

===========================================================================
